---- MODULE Spec2Model ----
(***************************************************************************)
(* Model of the `csv` operation of src/main.rs: the stdin line Reader, the *)
(* column-oriented parser Csv::from_reader, the Column accumulator and the *)
(* Display renderer of Csv, driven by main.                                *)
(*                                                                         *)
(* Text is a sequence of codepoints, each codepoint a one-character        *)
(* string.  The standard input is a finite stream; any read_line call may  *)
(* fail (an I/O error, or bytes that are not UTF-8), which the Reader      *)
(* turns into None.                                                        *)
(***************************************************************************)
EXTENDS Integers, Sequences, FiniteSets, TLC

\* ---------------------------------------------------------------- bounds
MaxLen == 7

\* Codepoints of the bounded input streams: a letter, the delimiter, the
\* line terminator and a two-byte letter.
Char == {"a", ",", "\n", "é"}

\* ------------------------------------------------------------- text helpers
\* UTF-8 encoded length of one codepoint (every other codepoint used is ASCII).
Bytes(c) == IF c = "é" THEN 2 ELSE 1

RECURSIVE ByteLen(_)
ByteLen(s) == IF s = <<>> THEN 0 ELSE Bytes(Head(s)) + ByteLen(Tail(s))

\* str.chars().count()
CharsCount(s) == Len(s)

Max(a, b) == IF a >= b THEN a ELSE b

\* &s[..n] on a String: n is a byte offset; a prefix exists only when n falls
\* on a codepoint boundary, otherwise the slice panics.
SliceTo(s, n) ==
    LET ks == {k \in 0..Len(s) : ByteLen(SubSeq(s, 1, k)) = n}
    IN  IF ks = {} THEN [panic |-> TRUE, text |-> <<>>]
        ELSE [panic |-> FALSE, text |-> SubSeq(s, 1, CHOOSE k \in ks : TRUE)]

\* BufRead::read_line from offset pos of the stream: everything up to and
\* including the next "\n", or up to the end of the stream.
read_line(in, pos) ==
    LET nls == {k \in (pos + 1)..Len(in) : in[k] = "\n"}
        end == IF nls = {} THEN Len(in)
               ELSE CHOOSE k \in nls : \A m \in nls : k <= m
    IN  SubSeq(in, pos + 1, end)

\* Reader::next: the outcome of one call at stream offset pos; ok says
\* whether read_line returns Ok.  After an Err the buffer is left empty, and
\* no caller reads again after a None.
next(in, pos, ok) ==
    LET b   == read_line(in, pos)
        len == ByteLen(b)
    IN  IF ~ok
        THEN [kind |-> "None", line |-> <<>>, buf |-> <<>>, pos |-> pos]
        ELSE IF len = 0
        THEN [kind |-> "None", line |-> <<>>, buf |-> b, pos |-> pos]
        ELSE LET s == SliceTo(b, len - 1)
             IN  IF s.panic
                 THEN [kind |-> "Panic", line |-> <<>>, buf |-> b,
                       pos |-> pos + Len(b)]
                 ELSE [kind |-> "Some", line |-> s.text, buf |-> b,
                       pos |-> pos + Len(b)]

\* A split that yields no piece for an empty text (and so none after a
\* trailing delimiter).
RECURSIVE split_dropping_empty(_, _)
split_dropping_empty(s, d) ==
    LET ps == {k \in 1..Len(s) : s[k] = d}
    IN  IF s = <<>> THEN <<>>
        ELSE IF ps = {} THEN <<s>>
        ELSE LET p == CHOOSE k \in ps : \A m \in ps : k <= m
             IN  <<SubSeq(s, 1, p - 1)>>
                     \o split_dropping_empty(SubSeq(s, p + 1, Len(s)), d)

\* str::split(d): the pieces between occurrences of d; never empty.
RECURSIVE split(_, _)
split(s, d) ==
    LET ps == {k \in 1..Len(s) : s[k] = d}
    IN  IF ps = {} THEN <<s>>
        ELSE LET p == CHOOSE k \in ps : \A m \in ps : k <= m
             IN  <<SubSeq(s, 1, p - 1)>> \o split(SubSeq(s, p + 1, Len(s)), d)

\* ------------------------------------------------------------------ Column
from_title(title) == [width |-> CharsCount(title), values |-> <<title>>]

\* An append that overwrites the width instead of taking the maximum.
append_last_width(column, value) ==
    [width  |-> CharsCount(value),
     values |-> Append(column.values, value)]

append(column, value) ==
    [width  |-> Max(column.width, CharsCount(value)),
     values |-> Append(column.values, value)]

len(column) == Len(column.values)

\* "{:>width$}": right-justify.
PadRightAligned(v, w) ==
    IF CharsCount(v) >= w THEN v
    ELSE [k \in 1..(w - CharsCount(v)) |-> " "] \o v

\* "{:<width$}": left-justify, pad with spaces up to width codepoints.
PadLeftAligned(v, w) ==
    IF CharsCount(v) >= w THEN v
    ELSE v \o [k \in 1..(w - CharsCount(v)) |-> " "]

\* Column::format; index is the 0-based row index of the source, values are
\* 1-based here.
format(column, index) ==
    <<"|", " ">> \o PadLeftAligned(column.values[index + 1], column.width)
                 \o <<" ">>

\* --------------------------------------------------------------------- Csv
RECURSIVE SumWidths(_)
SumWidths(cols) ==
    IF cols = <<>> THEN 0 ELSE Head(cols).width + SumWidths(Tail(cols))

\* A width that counts two characters of decoration per column.
width_two_extras(cols) ==
    LET columns == SumWidths(cols)
        extras  == 2 * Len(cols) + 1
    IN  columns + extras

width(cols) ==
    LET columns == SumWidths(cols)
        extras  == 3 * Len(cols) + 1
    IN  columns + extras

hr(cols) == [k \in 1..width(cols) |-> "-"] \o <<"\n">>

RECURSIVE FormatAll(_, _)
FormatAll(cols, index) ==
    IF cols = <<>> THEN <<>>
    ELSE format(Head(cols), index) \o FormatAll(Tail(cols), index)

row(cols, index) == FormatAll(cols, index) \o <<"|", "\n">>

num_rows(cols) == len(cols[1])

\* ------------------------------------------------------------------- state
VARIABLES
    input,      \* the whole standard input stream
    pos,        \* number of codepoints of input the Reader has consumed
    buf,        \* Reader.buf
    pc,         \* position of the program
    columns,    \* the columns being built by from_reader / owned by Csv
    i,          \* index of the enumerate() of the data-line loop
    index,      \* row index of the data-row loop of Display::fmt
    f,          \* the String the Formatter of to_string() writes into
    stdout,     \* text printed on standard output
    stderr,     \* error printed on standard error
    result,     \* the Err value csv returns, if any
    delivered,  \* history: the lines Reader::next has yielded so far
    eof,        \* history: Reader::next has returned None
    io_failed   \* history: a read_line call has returned Err

vars == <<input, pos, buf, pc, columns, i, index, f, stdout, stderr, result,
          delivered, eof, io_failed>>

NoError == [msg |-> "", line |-> 0]
EmptyCsv == [msg |-> "Empty CSV given.", line |-> 0]
EmptyHeader == [msg |-> "Empty header given.", line |-> 0]
InvalidNumber(n) == [msg |-> "Line {}: invalid number of values.", line |-> n]

\* A line number that does not count the header line.
LineNumberWithoutHeader(n) == n + 1

\* The line number reported for the data line of enumerate() index n.
LineNumber(n) == n + 2

\* A distribution that skips blank fields.
DistributeSkippingBlank(cols, values) ==
    [k \in 1..Len(cols) |->
        IF values[k] = <<>> THEN cols[k] ELSE append(cols[k], values[k])]

\* A distribution that fills the columns from the last field to the first.
DistributeReversed(cols, values) ==
    [k \in 1..Len(cols) |-> append(cols[k], values[Len(cols) + 1 - k])]

\* Lines 121-123: field k goes to column k.
Distribute(cols, values) ==
    [k \in 1..Len(cols) |-> append(cols[k], values[k])]

\* Line 107: one Column per header field, in order.
HeaderColumns(header) ==
    LET titles == split(header, ",")
    IN  [k \in 1..Len(titles) |-> from_title(titles[k])]

Streams == UNION {[1..n -> Char] : n \in 0..MaxLen}

\* The inputs of the spec's examples P5, P6 and P7; P6 also without the
\* terminator of its last line.
P5Stream == <<"a", ",", "b", "\n">>

P6Stream ==
    <<"n", "a", "m", "e", ",", "a", "g", "e", "\n",
      "A", "n", "n", ",", "3", "0", "\n",
      "B", "o", "b", ",", "5", "\n">>

P6Unterminated == SubSeq(P6Stream, 1, Len(P6Stream) - 1)

P7Stream == <<"a", ",", "b", "\n", "1", ",", "2", ",", "3", "\n">>

Inputs == Streams \cup {P5Stream, P6Stream, P6Unterminated, P7Stream}

Init ==
    /\ input \in Inputs
    /\ pos = 0
    /\ buf = <<>>
    /\ pc = "header"
    /\ columns = <<>>
    /\ i = 0
    /\ index = 0
    /\ f = <<>>
    /\ stdout = <<>>
    /\ stderr = NoError
    /\ result = NoError
    /\ delivered = <<>>
    /\ eof = FALSE
    /\ io_failed = FALSE

\* from_reader, lines 103-110: read the header and build one Column per field.
ReadHeader ==
    /\ pc = "header"
    /\ \E ok \in BOOLEAN :
       LET r == next(input, pos, ok)
       IN  /\ pos' = r.pos
           /\ io_failed' = (io_failed \/ ~ok)
           /\ buf' = r.buf
           /\ IF r.kind = "Panic"
              THEN /\ pc' = "panicked"
                   /\ UNCHANGED <<columns, result, delivered, eof>>
              ELSE IF r.kind = "None"
              THEN /\ pc' = "error"
                   /\ result' = EmptyCsv
                   /\ eof' = TRUE
                   /\ UNCHANGED <<columns, delivered>>
              ELSE LET header == r.line
                       cols   == HeaderColumns(header)
                   IN  /\ delivered' = Append(delivered, header)
                       /\ columns' = cols
                       /\ eof' = FALSE
                       /\ IF cols = <<>>
                          THEN pc' = "error" /\ result' = EmptyHeader
                          ELSE pc' = "lines" /\ result' = NoError
    /\ UNCHANGED <<input, i, index, f, stdout, stderr>>

\* from_reader, lines 112-126: one iteration of the data-line loop, or its end.
ReadLine ==
    /\ pc = "lines"
    /\ \E ok \in BOOLEAN :
       LET r == next(input, pos, ok)
       IN  /\ pos' = r.pos
           /\ io_failed' = (io_failed \/ ~ok)
           /\ buf' = r.buf
           /\ IF r.kind = "Panic"
              THEN /\ pc' = "panicked"
                   /\ UNCHANGED <<columns, i, result, delivered, eof>>
              ELSE IF r.kind = "None"
              THEN /\ pc' = "fmt_hr1"
                   /\ eof' = TRUE
                   /\ UNCHANGED <<columns, i, result, delivered>>
              ELSE LET line   == r.line
                       values == split(line, ",")
                   IN  /\ delivered' = Append(delivered, line)
                       /\ eof' = FALSE
                       /\ IF Len(values) # Len(columns)
                          THEN /\ pc' = "error"
                               /\ result' = InvalidNumber(LineNumber(i))
                               /\ UNCHANGED <<columns, i>>
                          ELSE /\ columns' = Distribute(columns, values)
                               /\ i' = i + 1
                               /\ pc' = "lines"
                               /\ UNCHANGED result
    /\ UNCHANGED <<input, index, f, stdout, stderr>>

\* Display::fmt, lines 157-159.
FmtHr1 ==
    /\ pc = "fmt_hr1"
    /\ f' = f \o hr(columns)
    /\ pc' = "fmt_row0"
    /\ UNCHANGED <<input, pos, buf, columns, i, index, stdout, stderr, result,
                   delivered, eof, io_failed>>

FmtRow0 ==
    /\ pc = "fmt_row0"
    /\ f' = f \o row(columns, 0)
    /\ pc' = "fmt_hr2"
    /\ UNCHANGED <<input, pos, buf, columns, i, index, stdout, stderr, result,
                   delivered, eof, io_failed>>

\* A second rule that is followed by the closing rule whatever the row count.
FmtHr2AlwaysClosing ==
    /\ pc = "fmt_hr2"
    /\ f' = f \o hr(columns)
    /\ IF num_rows(columns) > 1
       THEN pc' = "fmt_rows" /\ index' = 1
       ELSE pc' = "fmt_hr3" /\ UNCHANGED index
    /\ UNCHANGED <<input, pos, buf, columns, i, stdout, stderr, result,
                   delivered, eof, io_failed>>

\* Second rule, then the test of line 161.
FmtHr2 ==
    /\ pc = "fmt_hr2"
    /\ f' = f \o hr(columns)
    /\ IF num_rows(columns) > 1
       THEN pc' = "fmt_rows" /\ index' = 1
       ELSE pc' = "print" /\ UNCHANGED index
    /\ UNCHANGED <<input, pos, buf, columns, i, stdout, stderr, result,
                   delivered, eof, io_failed>>

\* Display::fmt, lines 162-164: data row `index` of the range 1..num_rows().
FmtRows ==
    /\ pc = "fmt_rows"
    /\ f' = f \o row(columns, index)
    /\ index' = index + 1
    /\ pc' = IF index + 1 < num_rows(columns) THEN "fmt_rows" ELSE "fmt_hr3"
    /\ UNCHANGED <<input, pos, buf, columns, i, stdout, stderr, result,
                   delivered, eof, io_failed>>

\* Display::fmt, line 165.
FmtHr3 ==
    /\ pc = "fmt_hr3"
    /\ f' = f \o hr(columns)
    /\ pc' = "print"
    /\ UNCHANGED <<input, pos, buf, columns, i, index, stdout, stderr, result,
                   delivered, eof, io_failed>>

\* main, lines 219-222.
PrintOutput ==
    /\ pc = "print"
    /\ stdout' = stdout \o f
    /\ pc' = "success"
    /\ UNCHANGED <<input, pos, buf, columns, i, index, f, stderr, result,
                   delivered, eof, io_failed>>

\* An error arm that also prints the rule and header of the columns read.
PrintErrorWithTable ==
    /\ pc = "error"
    /\ stderr' = result
    /\ stdout' = stdout \o hr(columns)
    /\ pc' = "failure"
    /\ UNCHANGED <<input, pos, buf, columns, i, index, f, result,
                   delivered, eof, io_failed>>

\* main, lines 223-226.
PrintError ==
    /\ pc = "error"
    /\ stderr' = result
    /\ pc' = "failure"
    /\ UNCHANGED <<input, pos, buf, columns, i, index, f, stdout, result,
                   delivered, eof, io_failed>>

Next ==
    \/ ReadHeader
    \/ ReadLine
    \/ FmtHr1
    \/ FmtRow0
    \/ FmtHr2
    \/ FmtRows
    \/ FmtHr3
    \/ PrintOutput
    \/ PrintError

Spec == Init /\ [][Next]_vars

\* ------------------------------------------------------ properties
\* Helpers of the properties, written independently of the operators above.

MaxOf(S) == CHOOSE m \in S : \A x \in S : x <= m

\* Number of comma-separated fields of a line.
NumFields(line) == 1 + Cardinality({k \in 1..Len(line) : line[k] = ","})

\* The j-th comma-separated field of a line: the text strictly between the
\* (j-1)-th and the j-th comma (the ends of the line standing for the 0-th
\* and the last).
Field(line, j) ==
    LET commas == {k \in 1..Len(line) : line[k] = ","}
        before(k) == Cardinality({m \in commas : m < k})
    IN  SelectSeq([k \in 1..Len(line) |-> <<k, line[k]>>],
                  LAMBDA e : e[2] # "," /\ before(e[1]) = j - 1)

FieldText(line, j) ==
    LET cells == Field(line, j) IN [k \in 1..Len(cells) |-> cells[k][2]]

\* The lines of a text: each run of codepoints ended by "\n", and a last
\* non-empty run that no "\n" ends.
RECURSIVE LinesOf(_)
LinesOf(text) ==
    IF text = <<>> THEN <<>>
    ELSE LET nls == {k \in 1..Len(text) : text[k] = "\n"}
         IN  IF nls = {} THEN <<text>>
             ELSE LET p == CHOOSE k \in nls : \A m \in nls : k <= m
                  IN  <<SubSeq(text, 1, p - 1)>>
                          \o LinesOf(SubSeq(text, p + 1, Len(text)))

EndsWithNewline(text) == text # <<>> /\ text[Len(text)] = "\n"

IsRule(line, n) == Len(line) = n /\ \A k \in 1..n : line[k] = "-"

RECURSIVE Str(_)
Str(text) == IF text = <<>> THEN "" ELSE Head(text) \o Str(Tail(text))

\* Data lines accepted so far: delivered lines after the header whose field
\* count is the header's.
Accepted ==
    Cardinality({k \in 2..Len(delivered) :
                    NumFields(delivered[k]) = NumFields(delivered[1])})

\* The k-th data line is the first whose field count differs from the header's.
FirstMismatch(k) ==
    /\ k + 1 <= Len(delivered)
    /\ NumFields(delivered[k + 1]) # NumFields(delivered[1])
    /\ \A m \in 1..(k - 1) :
          NumFields(delivered[m + 1]) = NumFields(delivered[1])

Failed == pc \in {"error", "failure"}

Sealed == pc \in {"fmt_hr1", "fmt_row0", "fmt_hr2", "fmt_rows", "fmt_hr3",
                  "print", "success"}

\* C1: in every state, the width of every column is the maximum codepoint
\* count over the values the column holds (header label included).
WidthInvariant ==
    \A j \in 1..Len(columns) :
        columns[j].width =
            MaxOf({CharsCount(columns[j].values[r]) :
                      r \in 1..Len(columns[j].values)})

\* A column whose width was raised by a data value and which then received a
\* shorter one.
WidthWitness ==
    \E j \in 1..Len(columns) :
        /\ Len(columns[j].values) >= 3
        /\ Len(columns[j].values[1]) < Len(columns[j].values[2])
        /\ Len(columns[j].values[3]) < Len(columns[j].values[2])

\* C2: after the header and after every data line, and in every Table, all
\* columns have 1 + (number of data lines accepted so far) values; a line
\* with a mismatching field count appends to no column.
RowCountConsistency ==
    \A j \in 1..Len(columns) : len(columns[j]) = 1 + Accepted

\* A rejected line after an accepted one, in a table of two columns.
RowCountWitness ==
    /\ Failed
    /\ result.line > 0
    /\ Accepted >= 1
    /\ Len(columns) >= 2

\* C3: when the k-th data line is the first with a field count other than
\* the header's, from_reader fails with the row-width error carrying line
\* number k + 1, and no later line has been read.
LineNumberAccuracy ==
    \A k \in 1..Len(delivered) :
        FirstMismatch(k) =>
            /\ Failed
            /\ result = InvalidNumber(k + 1)
            /\ Len(delivered) = k + 1
            /\ ~eof

\* The second data line of a two-column input is the first mismatch.
LineNumberWitness ==
    /\ FirstMismatch(2)
    /\ NumFields(delivered[1]) = 2
    /\ pc = "failure"
    /\ stderr.line = 3

\* C4: standard output is written only after end-of-input and a returned
\* Table; a failed run has written nothing; once rendering may start the
\* columns never change and accumulation never resumes.
NoPartialOutput ==
    /\ [](stdout # <<>> => eof /\ pc = "success" /\ result = NoError)
    /\ [](Failed \/ pc = "panicked" => stdout = <<>>)
    /\ [][Sealed => columns' = columns /\ Sealed']_vars

\* A run rejected at its third line, after two lines were accumulated.
NoPartialOutputWitness ==
    /\ pc = "failure"
    /\ stderr.line = 3
    /\ stdout = <<>>

\* C5: a header that splits into zero fields is rejected with the
\* empty-header error; an empty first line is not: it gives exactly one
\* column, labelled with the empty string of width 0, which every Table
\* built from that input keeps.
EmptyHeaderHandling ==
    Len(delivered) >= 1 =>
        /\ Len(split(delivered[1], ",")) = 0 =>
              Failed /\ result = EmptyHeader
        /\ delivered[1] = <<>> =>
              /\ result # EmptyHeader
              /\ Len(columns) = 1
              /\ columns[1].values[1] = <<>>
              /\ CharsCount(columns[1].values[1]) = 0
              /\ Len(delivered) = 1 => columns[1].width = 0

\* A printed table whose header line was empty.
EmptyHeaderWitness ==
    /\ pc = "success"
    /\ input # <<>>
    /\ input[1] = "\n"
    /\ delivered[1] = <<>>
    /\ Len(columns) = 1

\* C6: while no line has been rejected, value r of column j is the j-th
\* field of delivered line r, there are as many columns as header fields and
\* as many rows as delivered lines.
PositionalDistribution ==
    (pc \in {"lines"} \/ Sealed) =>
        /\ Len(columns) = NumFields(delivered[1])
        /\ \A j \in 1..Len(columns) :
              /\ Len(columns[j].values) = Len(delivered)
              /\ \A r \in 1..Len(delivered) :
                    columns[j].values[r] = FieldText(delivered[r], j)

\* A returned two-column Table whose data row has an empty first field and a
\* non-empty second one.
PositionalWitness ==
    /\ pc = "success"
    /\ Len(columns) = 2
    /\ Len(delivered) = 2
    /\ columns[1].values[2] = <<>>
    /\ columns[2].values[2] # <<>>

LayoutTotal == SumWidths(columns) + 3 * Len(columns) + 1

\* C7: every line of the output has sum(widths) + 3 * columns + 1
\* codepoints before its line break, and the rules are that many '-'.
LayoutWidth ==
    pc = "success" =>
        LET lines == LinesOf(stdout)
        IN  /\ EndsWithNewline(stdout)
            /\ \A k \in 1..Len(lines) : Len(lines[k]) = LayoutTotal
            /\ IsRule(lines[1], LayoutTotal)
            /\ IsRule(lines[3], LayoutTotal)
            /\ IsRule(lines[Len(lines)], LayoutTotal)

\* A printed table of two columns and a data row, with a padded cell.
LayoutWitness ==
    /\ pc = "success"
    /\ Len(columns) >= 2
    /\ num_rows(columns) >= 2
    /\ \E j \in 1..Len(columns) :
          Len(columns[j].values[2]) < columns[j].width

\* C8: the output is rule, header row, rule and, only when there are data
\* rows, the data rows in input order and a final rule: N + 3 lines for
\* N > 1 rows, exactly 3 lines for a header-only Table.
RenderingSequence ==
    pc = "success" =>
        LET N     == num_rows(columns)
            lines == LinesOf(stdout)
            text(r) == SubSeq(row(columns, r), 1, Len(row(columns, r)) - 1)
        IN  /\ EndsWithNewline(stdout)
            /\ Len(lines) = IF N > 1 THEN N + 3 ELSE 3
            /\ IsRule(lines[1], Len(lines[1]))
            /\ lines[2] = text(0)
            /\ IsRule(lines[3], Len(lines[3]))
            /\ N > 1 =>
                  /\ \A r \in 1..(N - 1) : lines[3 + r] = text(r)
                  /\ IsRule(lines[N + 3], Len(lines[N + 3]))

\* A printed table with two different data rows.
RenderingWitness ==
    /\ pc = "success"
    /\ num_rows(columns) = 3
    /\ columns[1].values[2] # columns[1].values[3]

P6Lines == LinesOf(P6Stream)

\* C9 as stated: the three lines name,age / Ann,30 / Bob,5 give the six
\* output lines of P6 with rules of 15 '-' characters.
FullRoundTripAsStated ==
    (delivered = P6Lines /\ eof) =>
        /\ Sealed
        /\ pc = "success" =>
              Str(stdout) = "---------------\n" \o
                            "| name | age |\n" \o
                            "---------------\n" \o
                            "| Ann  | 30  |\n" \o
                            "| Bob  | 5   |\n" \o
                            "---------------\n"

\* C9 amended: the same six lines, character for character, with rules of
\* 14 '-' characters (4 + 3 + 3 * 2 + 1), the length of the rows.
FullRoundTrip ==
    (delivered = P6Lines /\ eof) =>
        /\ Sealed
        /\ pc = "success" =>
              Str(stdout) = "--------------\n" \o
                            "| name | age |\n" \o
                            "--------------\n" \o
                            "| Ann  | 30  |\n" \o
                            "| Bob  | 5   |\n" \o
                            "--------------\n"

RoundTripWitness ==
    /\ pc = "success"
    /\ delivered = P6Lines
    /\ input = P6Stream

\* C10: while every read succeeds, the lines Reader::next yields are the
\* lines of the input, in order and complete, also the last one when no
\* newline follows it, and end-of-input is signalled after the last.
ReaderFidelity ==
    ~io_failed =>
        /\ pc # "panicked"
        /\ Len(delivered) <= Len(LinesOf(input))
        /\ \A k \in 1..Len(delivered) :
              k <= Len(LinesOf(input)) => delivered[k] = LinesOf(input)[k]
        /\ eof => Len(delivered) = Len(LinesOf(input))

====
